---- MODULE Spec2Model ----
(***************************************************************************)
(* Model of mygit.py: GitHubAPI.get_user_repos, GitHubRepo.clone / pull /  *)
(* run_script / list_repos and the cmd_* entry points.                     *)
(*                                                                         *)
(* Strings are sequences of one-character strings, so that str.replace,    *)
(* str.split, str.startswith and the pathlib operations are computed as    *)
(* the code computes them.  A path is a sequence of segments (each segment *)
(* a string); every path of the model is absolute.                         *)
(***************************************************************************)
EXTENDS Integers, Sequences, FiniteSets, TLC

VARIABLES
    username,   \* Config.username
    token,      \* Config.token
    dirs,       \* directories of the filesystem (normalised absolute paths)
    files,      \* regular files of the filesystem (normalised absolute paths)
    remote,     \* persisted remote URL of each cloned working tree
    last,       \* the last completed call: inputs, effects, return value
    api         \* GitHubAPI.get_user_repos: loop position and locals

vars == <<username, token, dirs, files, remote, last, api>>

----------------------------------------------------------------------------
(* Bounds *)

MaxCredLen == 2     \* longest account identifier / token of SpecCred
MaxErrLen == 3      \* longest free-form text captured from git in SpecCred
MaxExit == 2        \* script exit codes 0..MaxExit
MaxPages == 3       \* pages the remote API serves at most

----------------------------------------------------------------------------
(* Strings *)

RECURSIVE Flatten(_)
Flatten(ss) == IF ss = <<>> THEN <<>> ELSE Head(ss) \o Flatten(Tail(ss))

\* str.startswith
StartsWith(s, p) == Len(p) <= Len(s) /\ SubSeq(s, 1, Len(p)) = p

\* `sub in s`
Contains(s, sub) ==
    \E i \in 1..(Len(s) - Len(sub) + 1) : SubSeq(s, i, i + Len(sub) - 1) = sub

\* str.replace(old, new): leftmost non-overlapping occurrences; an empty
\* `old` matches before every character and at the end.
RECURSIVE Replace(_, _, _)
Replace(s, old, new) ==
    IF old = <<>>
    THEN IF s = <<>> THEN new
         ELSE new \o <<Head(s)>> \o Replace(Tail(s), old, new)
    ELSE IF Len(s) < Len(old) THEN s
    ELSE IF StartsWith(s, old)
         THEN new \o Replace(SubSeq(s, Len(old) + 1, Len(s)), old, new)
         ELSE <<Head(s)>> \o Replace(Tail(s), old, new)

\* str.split("/")
RECURSIVE Split(_)
Split(s) ==
    IF \A i \in 1..Len(s) : s[i] # "/" THEN <<s>>
    ELSE LET i == CHOOSE k \in 1..Len(s) :
                      s[k] = "/" /\ \A j \in 1..(k - 1) : s[j] # "/"
         IN  <<SubSeq(s, 1, i - 1)>> \o Split(SubSeq(s, i + 1, Len(s)))

\* All strings over `chars` of length lo..hi
StringsOver(chars, lo, hi) == UNION {[1..n -> chars] : n \in lo..hi}

----------------------------------------------------------------------------
(* Paths (pathlib.Path) *)

DotDot == <<".", ".">>
Dot == <<".">>
Root == <<>>

\* The segments pathlib keeps of a string: empty and "." segments are dropped
Parts(s) == SelectSeq(Split(s), LAMBDA seg : seg # <<>> /\ seg # Dot)

\* Path.__truediv__: an absolute right operand replaces the left one
PathJoin(dir, s) == IF s # <<>> /\ s[1] = "/" THEN Parts(s) ELSE dir \o Parts(s)

\* str(path)
PathStr(p) == IF p = <<>> THEN <<"/">>
              ELSE Flatten([i \in 1..Len(p) |-> <<"/">> \o p[i]])

Parent(p) == IF p = <<>> THEN <<>> ELSE SubSeq(p, 1, Len(p) - 1)

\* Path.resolve() on a filesystem without symbolic links
RECURSIVE Resolve(_)
Resolve(p) ==
    IF p = <<>> THEN <<>>
    ELSE LET q == Resolve(SubSeq(p, 1, Len(p) - 1))
             h == p[Len(p)]
         IN  IF h = DotDot THEN Parent(q) ELSE Append(q, h)

\* The kernel's path walk from `cur` along `rest`: the entry reached, or
\* NoEntry when a component is missing or a non-directory is traversed.
NoEntry == <<<<"?">>>>
RECURSIVE Walk(_, _, _, _)
Walk(ds, fs, cur, rest) ==
    IF rest = <<>> THEN cur
    ELSE IF cur \notin ds THEN NoEntry
    ELSE IF Head(rest) = DotDot THEN Walk(ds, fs, Parent(cur), Tail(rest))
    ELSE IF Append(cur, Head(rest)) \in ds \cup fs
         THEN Walk(ds, fs, Append(cur, Head(rest)), Tail(rest))
         ELSE NoEntry

\* Path.exists(), Path.is_file()
PathExists(ds, fs, p) == Walk(ds, fs, Root, p) # NoEntry
PathIsFile(ds, fs, p) == Walk(ds, fs, Root, p) \in fs

\* p is q or lies below q
Within(p, q) == Len(q) <= Len(p) /\ SubSeq(p, 1, Len(q)) = q

----------------------------------------------------------------------------
(* Configuration and the fixed names of the model *)

Base == << <<"b">> >>               \* Config.clone_directory
SegGit == <<".", "g", "i", "t">>    \* .git
SegS == <<"s">>                     \* the script every repository ships
OutsideFile == << <<"e">> >>        \* a file outside the clone directory

Https == <<"h", "t", "t", "p", "s", ":", "/", "/">>
Host == <<"g", "i", "t", "h", "u", "b", ".", "c", "o", "m">>
DotGitSuffix == <<".", "g", "i", "t">>
Mask == <<"*", "*", "*">>

\* GitHubRepo._build_clone_url / clean_url of _sanitize_remote_url
BuildCloneUrl(repo_path) == Https \o Host \o <<"/">> \o repo_path \o DotGitSuffix

\* clone_url of GitHubRepo.clone (credentials embedded)
AuthCloneUrl(repo_path) ==
    Https \o username \o <<":">> \o token \o <<"@">> \o Host \o <<"/">>
          \o repo_path \o DotGitSuffix

\* GitHubRepo._get_repo_dir
GetRepoDir(repo_path) ==
    LET parts == Split(repo_path) IN PathJoin(Base, parts[Len(parts)])

----------------------------------------------------------------------------
(* Filesystem effects *)

Ancestors(p) == {SubSeq(p, 1, n) : n \in 0..Len(p)}

\* Path.mkdir(parents=True, exist_ok=True)
MkdirParents(ds, p) == ds \cup Ancestors(p)

\* shutil.rmtree(target).  rm = "ok": the whole tree goes (the root directory
\* itself cannot be unlinked); "partial": the files went, then an OSError;
\* "fail": an OSError before anything was removed.
RmTreeDirs(ds, t, rm) ==
    IF rm = "ok" THEN {d \in ds : ~Within(d, t) \/ d = Root} ELSE ds
RmTreeFiles(fs, t, rm) ==
    IF rm \in {"ok", "partial"} THEN {f \in fs : ~Within(f, t)} ELSE fs
RmTreeRemote(rem, t, rm) ==
    IF rm \in {"ok", "partial"}
    THEN [d \in {x \in DOMAIN rem : ~Within(x, t)} |-> rem[d]]
    ELSE rem

\* git refuses to clone into an existing path unless it is an empty directory
GitCloneCanSucceed(ds, fs, t) ==
    \/ t \notin ds \cup fs
    \/ t \in ds /\ \A x \in ds \cup fs : x = t \/ ~Within(x, t)

SetRemote(rem, t, url) ==
    [d \in DOMAIN rem \cup {t} |-> IF d = t THEN url ELSE rem[d]]

----------------------------------------------------------------------------
(* GitHubRepo.clone *)

\* line 167: the only format test clone makes
RepoFormatOk(repo_path) == Contains(repo_path, <<"/">>)

\* error_msg with the second replace forgotten
SanitizeTokenOnly(text) == Replace(text, token, Mask)

\* lines 204-205: error_msg
Sanitize(text) == Replace(Replace(text, token, Mask), username, Mask)

\* the target directory removed whether or not force is set
ExistingDirPolicyReclone(exists, force) == IF exists THEN "remove" ELSE "fresh"

\* lines 174-185: what clone does about the target directory
\*   "return"  it exists and force is unset: return it
\*   "remove"  it exists and force is set: rmtree first
\*   "fresh"   it does not exist
ExistingDirPolicy(exists, force) ==
    IF exists THEN (IF force THEN "remove" ELSE "return") ELSE "fresh"

\* the OSError of rmtree swallowed
RemovalFailedIgnored(rm) == FALSE

\* lines 177-181: `except OSError` around shutil.rmtree ends the call
RemovalFailed(rm) == rm # "ok"

\* GitHubRepo._sanitize_remote_url: git remote set-url origin <clean_url>;
\* a failing git (CalledProcessError) is swallowed
SanitizeRemoteUrl(rem, t, repo_path, seturl) ==
    IF seturl = "ok" THEN SetRemote(rem, t, BuildCloneUrl(repo_path)) ELSE rem

\* The outcome of one call: return value (rk: "none" None, "path" a Path in
\* rpath, "int" an integer in rint, "true"/"false", "list" a list in rlist,
\* "raised" an uncaught exception), the filesystem operations and external
\* commands made, in order (ops), the message printed (msg) with the captured
\* text it embeds (diag), and the filesystem afterwards.
Result(rk, rpath, ops, msg, diag, existed, ds, fs, rem) ==
    [rk |-> rk, rpath |-> rpath, ops |-> ops, msg |-> msg, diag |-> diag,
     existed |-> existed, dirs |-> ds, files |-> fs, remote |-> rem]

\* lines 187-217: the clone proper, on filesystem (ds, fs, rem), after the
\* operations `ops` already made by this call
CloneFresh(repo_path, repo_dir, existed, ops, ds, fs, rem, git, seturl) ==
    LET t    == Resolve(repo_dir)
        ds1  == MkdirParents(ds, Base)
        ops1 == ops \o <<"mkdir", "git clone">>
        rc   == IF git.rc = "ok" /\ ~GitCloneCanSucceed(ds1, fs, t)
                THEN "fail" ELSE git.rc
    IN  CASE rc = "oserror" ->
               Result("raised", <<>>, ops1, "oserror", <<>>, existed, ds1, fs, rem)
          [] rc = "fail" ->
               Result("none", <<>>, ops1, "clone_failed", Sanitize(git.text),
                      existed, ds1, fs, rem)
          [] rc = "ok" ->
               Result("path", repo_dir, ops1 \o <<"git remote set-url">>,
                      "cloned", <<>>, existed,
                      ds1 \cup Ancestors(t) \cup {Append(t, SegGit)},
                      fs \cup {Append(t, SegS)},
                      SanitizeRemoteUrl(SetRemote(rem, t, AuthCloneUrl(repo_path)),
                                        t, repo_path, seturl))

\* GitHubRepo.clone(repo_path, force) with the outcomes of rmtree (rm),
\* git clone (git) and git remote set-url (seturl)
CloneCall(repo_path, force, rm, git, seturl) ==
    IF ~RepoFormatOk(repo_path)
    THEN Result("none", <<>>, <<>>, "invalid_format", <<>>, FALSE, dirs, files, remote)
    ELSE
    LET repo_dir == GetRepoDir(repo_path)
        existed  == PathExists(dirs, files, repo_dir)
        policy   == ExistingDirPolicy(existed, force)
        t        == Resolve(repo_dir)
    IN  CASE policy = "return" ->
               Result("path", repo_dir, <<>>, "already_exists", <<>>, existed,
                      dirs, files, remote)
          [] policy = "remove" /\ RemovalFailed(rm) ->
               Result("none", <<>>, <<"rmtree">>, "remove_failed", <<>>, existed,
                      RmTreeDirs(dirs, t, rm), RmTreeFiles(files, t, rm),
                      RmTreeRemote(remote, t, rm))
          [] policy = "remove" /\ ~RemovalFailed(rm) ->
               CloneFresh(repo_path, repo_dir, existed, <<"rmtree">>,
                          RmTreeDirs(dirs, t, rm), RmTreeFiles(files, t, rm),
                          RmTreeRemote(remote, t, rm), git, seturl)
          [] policy = "fresh" ->
               CloneFresh(repo_path, repo_dir, existed, <<>>, dirs, files, remote,
                          git, seturl)

\* cmd_clone: `return 0 if result else 1`; an uncaught exception ends the
\* interpreter with status 1
CmdCloneStatus(rk) == IF rk = "path" THEN 0 ELSE 1

NoResponse == [eof |-> FALSE, text |-> <<>>]

\* No call is in progress: the process has not read its command yet
NoCall ==
    [op |-> "init", repo_path |-> <<>>, force |-> FALSE, script |-> <<>>,
     no_confirm |-> FALSE, asked |-> FALSE, response |-> NoResponse,
     rk |-> "none", rpath |-> <<>>, rint |-> -1, rlist |-> {}, ops |-> <<>>,
     msg |-> "", diag |-> <<>>, existed |-> FALSE, target |-> <<>>, status |-> 0,
     rm |-> "none", code |-> -1]

\* The record kept of a completed call; rm is the outcome of the rmtree it
\* made and code the exit code of the script it ran (set by the caller)
Call(op, repo_path, force, script, no_confirm, asked, response, r, rint, rlist, target, status) ==
    [op |-> op, repo_path |-> repo_path, force |-> force, script |-> script,
     no_confirm |-> no_confirm, asked |-> asked, response |-> response,
     rk |-> r.rk, rpath |-> r.rpath, rint |-> rint, rlist |-> rlist,
     ops |-> r.ops, msg |-> r.msg, diag |-> r.diag, existed |-> r.existed,
     target |-> target, status |-> status, rm |-> "none", code |-> -1]

\* cmd_clone -> GitHubRepo.clone
Clone(repo_path, force, rm, git, seturl) ==
    /\ last = NoCall
    /\ \E r \in {CloneCall(repo_path, force, rm, git, seturl)} :
       /\ dirs' = r.dirs
       /\ files' = r.files
       /\ remote' = r.remote
       /\ last' = [Call("clone", repo_path, force, <<>>, FALSE, FALSE, NoResponse,
                        r, -1, {}, <<>>, CmdCloneStatus(r.rk))
                       EXCEPT !.rm = IF r.ops # <<>> /\ r.ops[1] = "rmtree"
                                     THEN rm ELSE "none"]
    /\ UNCHANGED <<username, token, api>>

----------------------------------------------------------------------------
(* GitHubRepo.pull *)

\* lines 260-265: the text pull prints, from stderr on failure and from
\* stdout on success
PullOutput(text) == text

\* GitHubRepo.pull(repo_path) with the outcome of git pull
PullCall(repo_path, git) ==
    LET repo_dir == GetRepoDir(repo_path)
        existed  == PathExists(dirs, files, repo_dir)
    IN  IF ~existed
        THEN Result("false", <<>>, <<>>, "repo_not_found", <<>>, existed,
                    dirs, files, remote)
        ELSE CASE git.rc = "oserror" ->
                    Result("raised", <<>>, <<"git pull">>, "oserror", <<>>, existed,
                           dirs, files, remote)
               [] git.rc = "fail" ->
                    Result("false", <<>>, <<"git pull">>, "pull_failed",
                           PullOutput(git.text), existed, dirs, files, remote)
               [] git.rc = "ok" ->
                    Result("true", <<>>, <<"git pull">>, "pulled",
                           PullOutput(git.text), existed, dirs, files, remote)

\* cmd_pull: `return 0 if result else 1`
CmdPullStatus(rk) == IF rk = "true" THEN 0 ELSE 1

\* cmd_pull -> GitHubRepo.pull
Pull(repo_path, git) ==
    /\ last = NoCall
    /\ \E r \in {PullCall(repo_path, git)} :
       last' = Call("pull", repo_path, FALSE, <<>>, FALSE, FALSE, NoResponse,
                    r, -1, {}, <<>>, CmdPullStatus(r.rk))
    /\ UNCHANGED <<username, token, dirs, files, remote, api>>

----------------------------------------------------------------------------
(* GitHubRepo.list_repos *)

\* lines 357-360: the names under the clone directory that are directories
\* holding a .git entry
LocalRepos ==
    {d[Len(d)] : d \in {x \in dirs : Len(x) = Len(Base) + 1 /\ Within(x, Base)
                                     /\ Append(x, SegGit) \in dirs \cup files}}

\* GitHubRepo.list_repos with the outcome of iterdir (access)
ListCall(access) ==
    IF Base \notin dirs
    THEN Result("list", <<>>, <<>>, "none_cloned", <<>>, FALSE, dirs, files, remote)
    ELSE IF access = "denied"
    THEN Result("list", <<>>, <<"iterdir">>, "access_error", <<>>, TRUE,
                dirs, files, remote)
    ELSE Result("list", <<>>, <<"iterdir">>,
                IF LocalRepos = {} THEN "none_cloned" ELSE "listed", <<>>, TRUE,
                dirs, files, remote)

\* cmd_list: `repo.list_repos(); return 0`
CmdListStatus(r) == 0

\* cmd_list -> GitHubRepo.list_repos
ListRepos(access) ==
    /\ last = NoCall
    /\ \E r \in {ListCall(access)} :
       last' = Call("list", <<>>, FALSE, <<>>, FALSE, FALSE, NoResponse, r, -1,
                    IF r.msg = "listed" THEN LocalRepos ELSE {}, <<>>,
                    CmdListStatus(r))
    /\ UNCHANGED <<username, token, dirs, files, remote, api>>

----------------------------------------------------------------------------
(* GitHubRepo.run_script *)

\* str.strip() and str.lower() on the characters a response is made of
RECURSIVE LStrip(_)
LStrip(s) == IF s # <<>> /\ Head(s) = " " THEN LStrip(Tail(s)) ELSE s
RECURSIVE RStrip(_)
RStrip(s) == IF s # <<>> /\ s[Len(s)] = " " THEN RStrip(SubSeq(s, 1, Len(s) - 1))
             ELSE s
Strip(s) == RStrip(LStrip(s))
LowerChar(c) == CASE c = "Y" -> "y" [] c = "N" -> "n" [] OTHER -> c
Lower(s) == [i \in 1..Len(s) |-> LowerChar(s[i])]

\* lines 317-320: confirm
ConfirmAnswer(response) ==
    IF response.eof THEN <<"n">> ELSE Lower(Strip(response.text))

\* `confirm != 'n'` in place of `confirm != 'y'`
ConfirmedUnlessNo(no_confirm, response) ==
    no_confirm \/ ConfirmAnswer(response) # <<"n">>

\* lines 314, 321: the call goes on to chmod and bash
Confirmed(no_confirm, response) ==
    no_confirm \/ ConfirmAnswer(response) = <<"y">>

\* line 306: str(full_script_path).startswith(str(repo_dir_resolved))
PathInsideRepo(full_resolved, repo_resolved) ==
    StartsWith(PathStr(full_resolved), PathStr(repo_resolved))

\* lines 292-311: the guard's verdict on the requested script
GuardReason(ds, fs, repo_dir, script_path) ==
    LET full == PathJoin(repo_dir, script_path) IN
    IF ~PathExists(ds, fs, full) THEN "script_not_found"
    ELSE IF ~PathIsFile(ds, fs, full) THEN "not_a_file"
    ELSE IF ~PathInsideRepo(Resolve(full), Resolve(repo_dir)) THEN "path_traversal"
    ELSE "ok"

\* success or failure in place of the exit code
ScriptReturnFlag(code) == IF code = 0 THEN 0 ELSE 1

\* line 342: return result.returncode
ScriptReturn(code) == code

\* cmd_run returns run_script's value and main's value goes to sys.exit: the
\* process status is the value's low byte; an uncaught exception gives 1
CmdRunStatus(rk, rint) == IF rk = "raised" THEN 1 ELSE rint % 256

\* The end of a run_script call: c holds the operations and filesystem so far
RunEnd(repo_path, script, no_confirm, asked, response, c, rk, rint, ops, msg, target, code) ==
    /\ dirs' = c.dirs
    /\ files' = c.files
    /\ remote' = c.remote
    /\ last' = [Call("run", repo_path, FALSE, script, no_confirm, asked, response,
                     [c EXCEPT !.rk = rk, !.ops = ops, !.msg = msg],
                     rint, {}, target, CmdRunStatus(rk, rint))
                    EXCEPT !.code = code]
    /\ UNCHANGED <<username, token, api>>

\* What the prompt may read, and how the bash subprocess may end
Responses ==
    {[eof |-> TRUE, text |-> <<>>]}
    \cup {[eof |-> FALSE, text |-> t] :
            t \in {<<"y">>, <<" ", "Y">>, <<"n">>, <<>>, <<"y", "y">>}}

RunOutcomes ==
    {[spawned |-> FALSE, code |-> -1]}
    \cup {[spawned |-> TRUE, code |-> c] : c \in (0..MaxExit) \cup {255}}

\* lines 325-345: chmod, then bash on the resolved path
RunLaunch(repo_path, script, no_confirm, response, c, repo_dir) ==
    \E run \in RunOutcomes :
        IF run.spawned
        THEN RunEnd(repo_path, script, no_confirm, ~no_confirm, response, c,
                    "int", ScriptReturn(run.code), c.ops \o <<"chmod", "bash">>,
                    "ran", Resolve(PathJoin(repo_dir, script)), run.code)
        ELSE RunEnd(repo_path, script, no_confirm, ~no_confirm, response, c,
                    "raised", -1, c.ops \o <<"chmod">>, "oserror", <<>>, -1)

\* lines 291-345, with the repository directory present
RunGuarded(repo_path, script, no_confirm, c, repo_dir) ==
    \E reason \in {GuardReason(c.dirs, c.files, repo_dir, script)} :
        IF reason # "ok"
        THEN RunEnd(repo_path, script, no_confirm, FALSE, NoResponse, c,
                    "int", 1, c.ops, reason, <<>>, -1)
        ELSE \E response \in (IF no_confirm THEN {NoResponse} ELSE Responses) :
                IF ~Confirmed(no_confirm, response)
                THEN RunEnd(repo_path, script, no_confirm, TRUE, response, c,
                            "int", 0, c.ops, "cancelled", <<>>, -1)
                ELSE RunLaunch(repo_path, script, no_confirm, response, c, repo_dir)

NoOps(existed) ==
    Result("none", <<>>, <<>>, "", <<>>, existed, dirs, files, remote)

\* cmd_run -> GitHubRepo.run_script(repo_path, script, args, no_confirm),
\* with the outcomes of the clone it may make (git, seturl)
RunScript(repo_path, script, no_confirm, git, seturl) ==
    /\ last = NoCall
    /\ LET repo_dir == GetRepoDir(repo_path) IN
       IF PathExists(dirs, files, repo_dir)
       THEN RunGuarded(repo_path, script, no_confirm, NoOps(TRUE), repo_dir)
       ELSE \E c \in {CloneCall(repo_path, FALSE, "ok", git, seturl)} :
               IF c.rk = "path"
               THEN RunGuarded(repo_path, script, no_confirm, c, c.rpath)
               ELSE IF c.rk = "raised"
               THEN RunEnd(repo_path, script, no_confirm, FALSE, NoResponse, c,
                           "raised", -1, c.ops, c.msg, <<>>, -1)
               ELSE RunEnd(repo_path, script, no_confirm, FALSE, NoResponse, c,
                           "int", 1, c.ops, c.msg, <<>>, -1)

\* sys.exit(main()): the process ends; the next invocation starts afresh
Exit ==
    /\ last # NoCall
    /\ last' = NoCall
    /\ UNCHANGED <<username, token, dirs, files, remote, api>>

----------------------------------------------------------------------------
(* GitHubAPI.get_user_repos *)

PerPage == 100

ApiIdle == [pc |-> "idle", page |-> 1, repos |-> <<>>, requests |-> <<>>,
            received |-> <<>>]

\* The entries of a page: entry i of page `page` is <<page, i>>
PageData(page, size) == [i \in 1..size |-> <<page, i>>]

\* What _make_request may return for page `page`: None (any failure), or a
\* list of at most per_page entries; the account holds fewer than MaxPages
\* full pages
ApiResponses(page) ==
    {[failed |-> TRUE, size |-> 0]}
    \cup {[failed |-> FALSE, size |-> n] :
            n \in 0..(IF page < MaxPages THEN PerPage ELSE PerPage - 1)}

\* `<=` in place of `<`
LastPageInclusive(len) == len <= PerPage

\* line 132: `if len(data) < per_page: break`
LastPage(len) == len < PerPage

\* lines 116-118
GetUserReposStart ==
    /\ last = NoCall
    /\ api.pc = "idle"
    /\ api' = [pc |-> "loop", page |-> 1, repos |-> <<>>, requests |-> <<>>,
               received |-> <<>>]
    /\ UNCHANGED <<username, token, dirs, files, remote, last>>

\* lines 120-135: one pass of the loop, with the response to the request
GetUserReposRequest(resp) ==
    /\ api.pc = "loop"
    /\ LET data == PageData(api.page, resp.size)
           seen == [api EXCEPT !.requests = Append(@, api.page),
                               !.received = Append(@, resp)]
       IN  api' = IF resp.failed \/ data = <<>>
                  THEN [seen EXCEPT !.pc = "returned"]
                  ELSE IF LastPage(Len(data))
                  THEN [seen EXCEPT !.pc = "returned", !.repos = @ \o data]
                  ELSE [seen EXCEPT !.repos = @ \o data, !.page = @ + 1]
    /\ UNCHANGED <<username, token, dirs, files, remote, last>>

\* line 137: `return repos`, whichever break ended the loop
GetUserReposResult == [kind |-> "list", items |-> api.repos]

\* InteractiveMenu.browse_github_repos, lines 480-490: what the caller makes of
\* the value: "failed" for None, "empty" for an empty list, "listing" otherwise
BrowseVerdict(result) ==
    IF result.kind = "none" THEN "failed"
    ELSE IF result.items = <<>> THEN "empty"
    ELSE "listing"

\* line 137: the caller takes the list
GetUserReposReturn ==
    /\ api.pc = "returned"
    /\ api' = ApiIdle
    /\ UNCHANGED <<username, token, dirs, files, remote, last>>

----------------------------------------------------------------------------
(* Inputs and outcomes of the environment *)

RepoInputs ==
    { <<"o", "/", "r">>,                \* o/r
      <<"o", "/", "r", "r">>,           \* o/rr: a sibling whose name begins with r
      <<"r">>,                          \* no separator
      <<"o", "/", "o", "/", "r">>,      \* two separators
      <<"/", "r">>,                     \* empty owner
      <<"o", "/">>,                     \* empty name
      <<"o", "/", ".", ".">> }          \* o/..

RunRepoInputs == { <<"o", "/", "r">>, <<"o", "/", "r", "r">>, <<"r">> }

ScriptInputs ==
    { <<"s">>,                                          \* s
      <<".", ".", "/", "r", "r", "/", "s">>,            \* ../rr/s
      <<"/", "e">>,                                     \* /e
      <<".", ".", "/", ".", ".", "/", "e">>,            \* ../../e
      <<"x">>,                                          \* x (missing)
      <<".", ".", "/", "x">>,                           \* ../x (missing)
      <<".", "g", "i", "t">> }                          \* .git (a directory)

RmOutcomes == {"ok", "partial", "fail"}
SetUrlOutcomes == {"ok", "fail"}
NoGit == [rc |-> "none", text |-> <<>>]

\* What git may write to a stream it is captured from: nothing, the account
\* identifier, the token, or the URL it was given
GitTexts(repo_path) ==
    {<<>>, username, token, <<"f", ":">> \o AuthCloneUrl(repo_path)}

GitCloneOutcomes(repo_path) ==
    {[rc |-> "ok", text |-> <<>>], [rc |-> "oserror", text |-> <<>>]}
    \cup {[rc |-> "fail", text |-> t] : t \in GitTexts(repo_path)}

GitPullOutcomes(repo_path) ==
    {[rc |-> "oserror", text |-> <<>>]}
    \cup {[rc |-> rc, text |-> t] : rc \in {"ok", "fail"}, t \in GitTexts(repo_path)}

\* The outcomes a clone call consults
RmChoices(repo_path, force) ==
    IF RepoFormatOk(repo_path)
       /\ ExistingDirPolicy(PathExists(dirs, files, GetRepoDir(repo_path)), force)
              = "remove"
    THEN RmOutcomes ELSE {"ok"}
GitChoices(repo_path, force, rm) ==
    LET policy == ExistingDirPolicy(PathExists(dirs, files, GetRepoDir(repo_path)),
                                    force)
    IN  IF RepoFormatOk(repo_path)
           /\ (policy = "fresh" \/ (policy = "remove" /\ ~RemovalFailed(rm)))
        THEN GitCloneOutcomes(repo_path) ELSE {NoGit}
SetUrlChoices(git) == IF git.rc = "ok" THEN SetUrlOutcomes ELSE {"ok"}

----------------------------------------------------------------------------
(* Specification *)

InitFs ==
    /\ dirs = {Root}
    /\ files = {OutsideFile}
    /\ remote = [d \in {} |-> <<>>]
    /\ last = NoCall
    /\ api = ApiIdle

Init ==
    /\ username = <<"o">>
    /\ token = <<"k">>
    /\ InitFs

CloneStep ==
    /\ last = NoCall
    /\ \E repo_path \in RepoInputs, force \in BOOLEAN :
        \E rm \in RmChoices(repo_path, force) :
            \E git \in GitChoices(repo_path, force, rm) :
                \E seturl \in SetUrlChoices(git) :
                    Clone(repo_path, force, rm, git, seturl)

PullStep ==
    /\ last = NoCall
    /\ \E repo_path \in RunRepoInputs :
        \E git \in GitPullOutcomes(repo_path) : Pull(repo_path, git)

ListStep == last = NoCall /\ \E access \in {"ok", "denied"} : ListRepos(access)

RunStep ==
    /\ last = NoCall
    /\ \E repo_path \in RunRepoInputs, script \in ScriptInputs, no_confirm \in BOOLEAN :
        \E git \in GitChoices(repo_path, FALSE, "ok") :
            \E seturl \in SetUrlChoices(git) :
                RunScript(repo_path, script, no_confirm, git, seturl)

Next ==
    \/ CloneStep
    \/ PullStep
    \/ ListStep
    \/ RunStep
    \/ Exit

Spec == Init /\ [][Next]_vars

\* The remote listing on its own
RequestStep ==
    \E resp \in ApiResponses(api.page) : GetUserReposRequest(resp)

NextApi ==
    \/ GetUserReposStart
    \/ RequestStep
    \/ GetUserReposReturn

SpecApi == Init /\ [][NextApi]_vars

\* Clone and pull of one repository under every configured account
\* identifier and token, with every short text git may print
CredChars == {"o", "k"}
Creds == StringsOver(CredChars, 1, MaxCredLen)
FreeTexts == StringsOver(CredChars, 0, MaxErrLen)
CredRepo == <<"o", "/", "r">>
CredTexts == FreeTexts \cup {<<"f", ":">> \o AuthCloneUrl(CredRepo)}

InitCred ==
    /\ username \in Creds
    /\ token \in Creds
    /\ InitFs

CloneCredStep ==
    /\ last = NoCall
    /\ \E force \in BOOLEAN :
        \E git \in {[rc |-> "ok", text |-> <<>>]}
                    \cup {[rc |-> "fail", text |-> t] : t \in CredTexts} :
            Clone(CredRepo, force, "ok", git, "ok")

PullCredStep ==
    /\ last = NoCall
    /\ \E git \in {[rc |-> rc, text |-> t] : rc \in {"ok", "fail"}, t \in CredTexts} :
        Pull(CredRepo, git)

NextCred ==
    \/ CloneCredStep
    \/ PullCredStep
    \/ Exit

SpecCred == InitCred /\ [][NextCred]_vars

----------------------------------------------------------------------------
(* Properties *)

Has(ops, x) == \E i \in DOMAIN ops : ops[i] = x

\* A RepositoryRef: exactly one separator, owner and name non-empty
WellFormedRef(s) ==
    LET parts == Split(s)
    IN  Len(parts) = 2 /\ parts[1] # <<>> /\ parts[2] # <<>>

\* C1: whenever run_script launches bash, the file launched lies inside the
\* canonical repository directory (it is that directory or below it).
C1_LaunchedInsideRepo ==
    (last.op = "run" /\ Has(last.ops, "bash"))
        => Within(last.target, Resolve(GetRepoDir(last.repo_path)))

\* C2: after a clone whose git exited non-zero, the diagnostic text printed
\* contains neither the token nor the account identifier.
C2_CloneDiagRedacted ==
    (last.op = "clone" /\ last.msg = "clone_failed")
        => ~Contains(last.diag, token) /\ ~Contains(last.diag, username)

\* git echoed the credential-embedded URL and both credentials were masked
C2_Witness ==
    /\ last.op = "clone"
    /\ last.msg = "clone_failed"
    /\ Contains(last.diag, <<"/">> \o Mask \o <<":">> \o Mask \o <<"@">>)
    /\ Len(token) = MaxCredLen
    /\ username # token

\* C3: the text pull prints from a failed or successful git pull contains
\* neither the token nor the account identifier.
C3_PullOutputScrubbed ==
    last.op = "pull"
        => ~Contains(last.diag, token) /\ ~Contains(last.diag, username)

\* C4: clone rejects every identifier that is not a RepositoryRef as an
\* invalid format, before any filesystem operation or external command.
C4_OnlyWellFormedAccepted ==
    (last.op = "clone" /\ ~WellFormedRef(last.repo_path))
        => last.msg = "invalid_format" /\ last.rk = "none" /\ last.ops = <<>>

\* C5: clone(ref, force=false) on an existing target directory returns that
\* directory, makes no filesystem operation and invokes no command, and
\* leaves the filesystem as it was.
C5_ExistingReturned ==
    [][(/\ last = NoCall
        /\ last'.op = "clone"
        /\ ~last'.force
        /\ WellFormedRef(last'.repo_path)
        /\ PathExists(dirs, files, GetRepoDir(last'.repo_path)))
       => (/\ last'.rk = "path"
           /\ last'.rpath = GetRepoDir(last'.repo_path)
           /\ last'.ops = <<>>
           /\ last'.status = 0
           /\ dirs' = dirs /\ files' = files /\ remote' = remote)]_vars

C5_Witness ==
    /\ last.op = "clone"
    /\ ~last.force
    /\ WellFormedRef(last.repo_path)
    /\ last.existed
    /\ last.msg = "already_exists"
    /\ PathExists(dirs, files, last.rpath)

\* C6: clone(ref, force=true) on an existing target directory calls rmtree
\* first, before git clone; when rmtree fails the call returns None and git
\* clone is not invoked.
C6_ForceRemovesFirst ==
    (last.op = "clone" /\ last.force /\ WellFormedRef(last.repo_path)
     /\ last.existed)
        => /\ last.ops # <<>> /\ last.ops[1] = "rmtree"
           /\ last.rm # "none"
           /\ \A i \in DOMAIN last.ops : last.ops[i] = "git clone" => i > 1
           /\ last.rm # "ok" => last.rk = "none" /\ ~Has(last.ops, "git clone")

C6_Witness ==
    /\ last.op = "clone" /\ last.force /\ WellFormedRef(last.repo_path)
    /\ last.existed
    /\ last.rm = "fail"
    /\ last.rk = "none"

\* C7: with no_confirm unset, a response that is not 'y' (end of input
\* included) makes run_script return 0 with neither chmod nor bash; chmod and
\* bash happen only with no_confirm set or after the response 'y'.
Affirmative(response) == ~response.eof /\ Lower(Strip(response.text)) = <<"y">>

C7_ConfirmationGate ==
    last.op = "run" =>
        /\ (~last.no_confirm /\ last.asked /\ ~Affirmative(last.response))
              => /\ last.rk = "int" /\ last.rint = 0
                 /\ ~Has(last.ops, "chmod") /\ ~Has(last.ops, "bash")
        /\ (Has(last.ops, "chmod") \/ Has(last.ops, "bash"))
              => last.no_confirm \/ (last.asked /\ Affirmative(last.response))

C7_Witness ==
    /\ last.op = "run" /\ ~last.no_confirm /\ last.asked
    /\ last.response.eof
    /\ last.rint = 0

\* C8: whenever run_script launched the script, its return value and the
\* exit status of the run subcommand are the script's exit code.
C8_ExitCodePropagated ==
    (last.op = "run" /\ Has(last.ops, "bash"))
        => last.rk = "int" /\ last.rint = last.code /\ last.status = last.code

C8_Witness ==
    /\ last.op = "run" /\ Has(last.ops, "bash")
    /\ last.code = MaxExit
    /\ last.status = MaxExit

\* C9: clone, pull and list exit with 1 when the operation failed and with 0
\* when it succeeded; run exits with 0 when the user declines and with 1 on
\* a guard rejection or a failed clone.
C9_ExitStatus ==
    /\ last.op = "clone"
          => last.status = IF last.msg \in {"cloned", "already_exists"} THEN 0 ELSE 1
    /\ last.op = "pull" => last.status = IF last.msg = "pulled" THEN 0 ELSE 1
    /\ last.op = "list" => last.status = IF last.msg = "access_error" THEN 1 ELSE 0
    /\ (last.op = "run" /\ last.msg = "cancelled") => last.status = 0
    /\ (last.op = "run" /\ last.msg \in {"script_not_found", "not_a_file",
                                         "path_traversal", "clone_failed",
                                         "invalid_format"})
          => last.status = 1

\* C10: get_user_repos requests pages 1, 2, 3, ... in order, makes no request
\* after a page that failed, was empty or held fewer than 100 entries, goes on
\* after a full page, and its list is the concatenation of the pages received.
RECURSIVE ConcatPages(_, _)
ConcatPages(received, n) ==
    IF n = 0 THEN <<>>
    ELSE ConcatPages(received, n - 1)
         \o (IF received[n].failed THEN <<>> ELSE PageData(n, received[n].size))

FullPage(resp) == ~resp.failed /\ resp.size = 100

C10_Pagination ==
    LET n == Len(api.received) IN
    /\ api.requests = [i \in 1..n |-> i]
    /\ \A i \in 1..(n - 1) : FullPage(api.received[i])
    /\ api.pc = "loop" => (\A i \in 1..n : FullPage(api.received[i])) /\ api.page = n + 1
    /\ api.pc = "returned" => n >= 1 /\ ~FullPage(api.received[n])
    /\ api.repos = ConcatPages(api.received, n)

C10_Witness ==
    /\ api.pc = "returned"
    /\ api.requests = <<1, 2, 3>>
    /\ Len(api.repos) = 237
    /\ api.repos[201] = <<3, 1>>

\* C11: after every clone call that succeeded by cloning, the persisted
\* remote URL of the working tree is https://github.com/<owner>/<name>.git,
\* with no credentials embedded in it.
C11_RemoteUrlClean ==
    (last.op = "clone" /\ last.msg = "cloned")
        => LET t == Resolve(last.rpath) IN
           /\ t \in DOMAIN remote
           /\ remote[t] = Https \o Host \o <<"/">> \o last.repo_path \o DotGitSuffix
           /\ ~Contains(remote[t], username \o <<":">> \o token \o <<"@">>)

\* C12: when a page request failed, get_user_repos has stopped at that page
\* and its caller can tell the result from a complete listing: the value is
\* not an ordinary list and the caller reports the failure.
C12_FailureVisible ==
    LET n == Len(api.received) IN
    (api.pc = "returned" /\ api.received[n].failed)
        => /\ api.repos = ConcatPages(api.received, n - 1)
           /\ GetUserReposResult.kind # "list"
           /\ BrowseVerdict(GetUserReposResult) = "failed"

\* The call got as far as the guard: the repository directory was there or
\* the clone made by run_script succeeded
GuardReached == last.op = "run" /\ (last.existed \/ Has(last.ops, "git remote set-url"))

\* The requested script resolves outside the repository directory
ResolvesOutside ==
    ~Within(Resolve(PathJoin(GetRepoDir(last.repo_path), last.script)),
            Resolve(GetRepoDir(last.repo_path)))

\* C13: a requested script path that resolves outside the repository root,
\* whether or not a file exists there, is rejected with the path-traversal (or
\* invalid-path) reason, never with not-found or not-a-file.
C13_OutsideIsTraversal ==
    (GuardReached /\ ResolvesOutside)
        => last.msg \in {"path_traversal", "invalid_path"}

\* The bash subprocess could not be started: chmod was the last operation of
\* a call that went past the confirmation
LaunchFailed ==
    /\ last.op = "run"
    /\ Has(last.ops, "chmod")
    /\ ~Has(last.ops, "bash")

\* C14: when the script process cannot be launched after confirmation,
\* run_script returns 1 with the execution-error message and no exception
\* reaches its caller.
C14_LaunchFailureReturned ==
    LaunchFailed
        => last.rk = "int" /\ last.rint = 1 /\ last.msg = "execution_error"

\* The directory a clone call gave to rmtree
RemovedDir == Resolve(GetRepoDir(last.repo_path))

\* C15: the directory a forced clone removes is a proper subdirectory of the
\* clone directory, one level below it: never the clone directory itself or a
\* directory outside it.
C15_RemovesOnlyRepoDir ==
    (last.op = "clone" /\ Has(last.ops, "rmtree"))
        => Within(RemovedDir, Base) /\ Len(RemovedDir) = Len(Base) + 1

====
